---- MODULE Spec2Model ----
(***************************************************************************)
(* CutyCapt (Qt6 WebEngine port): the command line loop of main() and the  *)
(* capture orchestration of class CutyCapt / CutyEnginePage, as a state    *)
(* machine over the Qt event loop.                                         *)
(*                                                                         *)
(* C strings are sequences of one-character strings, so that strncmp,      *)
(* strcmp, strchr, strtol and QString::endsWith are computed as the code   *)
(* computes them.  A command line argument is the pair of the text before  *)
(* its first '=' (name), whether it has an '=' (eq) and the text after it  *)
(* (value).                                                                *)
(***************************************************************************)
EXTENDS Integers, Sequences, FiniteSets, TLC

VARIABLES
    argv,                 \* main: argv[1..argc-1]
    ax,                   \* main: index of the argument the loop is at
    main,                 \* main: the locals the argument loop assigns, and the page's
                          \*       mAlertString it sets through page.setAlertString
    pc,                   \* "parse" | "validate" | "run" | "exited"
    exitCode,             \* process exit status once pc = "exited" (-1 before)
    mSawDocumentComplete, \* CutyCapt::mSawDocumentComplete
    mSawGeometryChange,   \* CutyCapt::mSawGeometryChange
    mViewSize,            \* CutyCapt::mViewSize, <<width, height>>
    pageSize,             \* mPage->size(), the widget's current size
    timeoutActive,        \* CutyCapt::mTimeoutTimer is running
    delayTimers,          \* pending QTimer::singleShot(mDelay, Delayed) of TryDelayedRender
    alertTimers,          \* pending QTimer::singleShot(10, Delayed) of javaScriptAlert
    probesPending,        \* runJavaScript callbacks not yet delivered
    printsPending,        \* printToPdf requests whose pdfPrintingFinished is not yet delivered
    textPending,          \* toPlainText / toHtml callbacks not yet delivered
    loads,                \* loadFinished signals delivered so far
    alerts,               \* javaScriptAlert calls delivered so far
    captures,             \* observation: number of saveSnapshot invocations so far
    snapSize,             \* observation: mViewSize at the last format dispatch of saveSnapshot
    probesIssued,         \* observation: number of runJavaScript probes issued so far
    alertMatched,         \* observation: an alert whose message equals mAlertString was seen
    timeoutFired,         \* observation: the Timeout slot has run
    loadFailed,           \* observation: loadFinished(false) was delivered
    printFailed,          \* observation: pdfPrintingFinished(_, false) was delivered
    lastProbe,            \* observation: the size the last probe callback read, NullSize before any
    lastAlertExact,       \* observation: the last alert's message was identical to mAlertString
    dialogAnswer,         \* observation: what the last confirm or prompt dialog was answered
    openFailed,           \* observation: the text / HTML output file could not be opened
    certDecision,         \* observation: the last certificate error and whether it was accepted
    ev                    \* observation: the handler that ran last

vars == <<argv, ax, main, pc, exitCode, mSawDocumentComplete, mSawGeometryChange,
          mViewSize, pageSize, timeoutActive, delayTimers, alertTimers,
          probesPending, printsPending, textPending, loads, alerts, captures,
          snapSize, probesIssued, alertMatched, timeoutFired, loadFailed,
          printFailed, lastProbe, lastAlertExact, dialogAnswer, openFailed,
          certDecision, ev>>

cliVars == <<argv, ax, main>>

runVars == <<mSawDocumentComplete, mSawGeometryChange, mViewSize, pageSize,
             timeoutActive, delayTimers, alertTimers, probesPending,
             printsPending, textPending, loads, alerts, captures, snapSize,
             probesIssued, alertMatched, timeoutFired, loadFailed, printFailed,
             lastProbe, lastAlertExact, dialogAnswer, openFailed, certDecision>>

(***************************************************************************)
(* Bounds of the model.                                                    *)
(***************************************************************************)
MaxArgs == 3        \* longest command line of the argument-loop specification
MaxLoads == 2       \* loadFinished signals per run
MaxAlerts == 2      \* javaScriptAlert calls per run

(***************************************************************************)
(* Program constants.                                                      *)
(***************************************************************************)
DefaultMinWidth == 800
DefaultMinHeight == 600
DefaultMaxWait == 90000
FallbackWidth == 800
FallbackHeight == 600
ExitFailure == 1

(***************************************************************************)
(* The format table.                                                       *)
(***************************************************************************)
CutyExtMap ==
    << [id |-> "SvgFormat",       extension |-> <<".","s","v","g">>,     identifier |-> <<"s","v","g">>],
       [id |-> "PdfFormat",       extension |-> <<".","p","d","f">>,     identifier |-> <<"p","d","f">>],
       [id |-> "PsFormat",        extension |-> <<".","p","s">>,         identifier |-> <<"p","s">>],
       [id |-> "InnerTextFormat", extension |-> <<".","t","x","t">>,     identifier |-> <<"i","t","e","x","t">>],
       [id |-> "HtmlFormat",      extension |-> <<".","h","t","m","l">>, identifier |-> <<"h","t","m","l">>],
       [id |-> "JpegFormat",      extension |-> <<".","j","p","e","g">>, identifier |-> <<"j","p","e","g">>],
       [id |-> "PngFormat",       extension |-> <<".","p","n","g">>,     identifier |-> <<"p","n","g">>],
       [id |-> "MngFormat",       extension |-> <<".","m","n","g">>,     identifier |-> <<"m","n","g">>],
       [id |-> "TiffFormat",      extension |-> <<".","t","i","f","f">>, identifier |-> <<"t","i","f","f">>],
       [id |-> "GifFormat",       extension |-> <<".","g","i","f">>,     identifier |-> <<"g","i","f">>],
       [id |-> "BmpFormat",       extension |-> <<".","b","m","p">>,     identifier |-> <<"b","m","p">>],
       [id |-> "PpmFormat",       extension |-> <<".","p","p","m">>,     identifier |-> <<"p","p","m">>],
       [id |-> "XbmFormat",       extension |-> <<".","x","b","m">>,     identifier |-> <<"x","b","m">>],
       [id |-> "XpmFormat",       extension |-> <<".","x","p","m">>,     identifier |-> <<"x","p","m">>],
       [id |-> "OtherFormat",     extension |-> <<>>,                    identifier |-> <<>>] >>

OtherFormat == "OtherFormat"

OutputFormat == { CutyExtMap[i].id : i \in 1..Len(CutyExtMap) }

\* The rows a loop "for (ix = 0; CutyExtMap[ix].id != OtherFormat; ++ix)" visits.
TableRows == { i \in 1..Len(CutyExtMap) :
                 \A j \in 1..i : CutyExtMap[j].id # OtherFormat }

(***************************************************************************)
(* C and Qt string functions.                                              *)
(***************************************************************************)
\* strncmp(lit, s, nlen) == 0 where s[0..nlen) is `name`, the text before the
\* first '=' of s (so it holds neither '=' nor NUL): the first nlen characters
\* agree, i.e. name is a prefix of the literal, the empty name included.
strncmpEq(lit, name) ==
    /\ Len(name) <= Len(lit)
    /\ \A i \in 1..Len(name) : lit[i] = name[i]

\* strcmp(a, b) == 0
strcmpEq(a, b) == a = b

\* QString::endsWith
endsWith(s, suffix) ==
    /\ Len(suffix) <= Len(s)
    /\ \A i \in 1..Len(suffix) : s[Len(s) - Len(suffix) + i] = suffix[i]

DigitValue ==
    [c \in {"0","1","2","3","4","5","6","7","8","9"} |->
        CASE c = "0" -> 0 [] c = "1" -> 1 [] c = "2" -> 2 [] c = "3" -> 3
          [] c = "4" -> 4 [] c = "5" -> 5 [] c = "6" -> 6 [] c = "7" -> 7
          [] c = "8" -> 8 [] c = "9" -> 9]

RECURSIVE strtolDigits(_, _, _, _)
\* The longest run of digits of `base` from position i on, accumulated onto acc.
strtolDigits(s, i, base, acc) ==
    IF i > Len(s) \/ s[i] \notin DOMAIN DigitValue THEN acc
    ELSE IF DigitValue[s[i]] >= base THEN acc
    ELSE strtolDigits(s, i + 1, base, acc * base + DigitValue[s[i]])

\* strtol(value, nullptr, 0) on a text of an optional sign and digits: a leading
\* "0" selects octal, anything else decimal; no digits give 0.
strtol(s) ==
    LET neg == Len(s) >= 1 /\ s[1] = "-"
        start == IF Len(s) >= 1 /\ s[1] \in {"-", "+"} THEN 2 ELSE 1
        base == IF start <= Len(s) /\ s[start] = "0" THEN 8 ELSE 10
        mag == strtolDigits(s, start, base, 0)
    IN IF neg THEN 0 - mag ELSE mag

\* The numbers of this model are 32-bit two's complement, as int and int32_t
\* are, so the conversion of an in-range strtol result to them changes nothing.
\* A uint32_t is kept as the signed reading of its 32 bits; "u > 0" on it is
\* then "the bits are not all zero".
UnsignedPositive(bits) == bits # 0

(***************************************************************************)
(* QSize / QSizeF.                                                         *)
(***************************************************************************)
\* QSize(): an invalid size.
NullSize == <<-1, -1>>

\* QSize::isEmpty
isEmpty(sz) == sz[1] <= 0 \/ sz[2] <= 0

\* QSizeF::toSize on a size given in tenths: qRound of each component.
toSize(szf) == << (szf[1] + 5) \div 10, (szf[2] + 5) \div 10 >>

\* QWidget::setMinimumSize(sz) followed by resize(sz): negative components are
\* refused and the widget ends at least 0 wide and high.
WidgetSize(sz) == << IF sz[1] < 0 THEN 0 ELSE sz[1], IF sz[2] < 0 THEN 0 ELSE sz[2] >>

(***************************************************************************)
(* main(): the argument loop.                                              *)
(***************************************************************************)
\* The flags compared whole with strcmp, before strchr(s, '=').
SwitchSilent == <<"-","-","s","i","l","e","n","t">>
SwitchHelp == <<"-","-","h","e","l","p">>
SwitchInsecure == <<"-","-","i","n","s","e","c","u","r","e">>
SwitchSmooth == <<"-","-","s","m","o","o","t","h">>
SwitchDebugPrintAlerts == <<"-","-","d","e","b","u","g","-","p","r","i","n","t","-","a","l","e","r","t","s">>

\* The strncmp chain, in the order of the else-if ladder.
FlagChain ==
    << [flag |-> "--url", lit |-> <<"-","-","u","r","l">>],
       [flag |-> "--min-width", lit |-> <<"-","-","m","i","n","-","w","i","d","t","h">>],
       [flag |-> "--min-height", lit |-> <<"-","-","m","i","n","-","h","e","i","g","h","t">>],
       [flag |-> "--delay", lit |-> <<"-","-","d","e","l","a","y">>],
       [flag |-> "--max-wait", lit |-> <<"-","-","m","a","x","-","w","a","i","t">>],
       [flag |-> "--out", lit |-> <<"-","-","o","u","t">>],
       [flag |-> "--auto-load-images", lit |-> <<"-","-","a","u","t","o","-","l","o","a","d","-","i","m","a","g","e","s">>],
       [flag |-> "--javascript", lit |-> <<"-","-","j","a","v","a","s","c","r","i","p","t">>],
       [flag |-> "--plugins", lit |-> <<"-","-","p","l","u","g","i","n","s">>],
       [flag |-> "--js-can-open-windows", lit |-> <<"-","-","j","s","-","c","a","n","-","o","p","e","n","-","w","i","n","d","o","w","s">>],
       [flag |-> "--js-can-access-clipboard", lit |-> <<"-","-","j","s","-","c","a","n","-","a","c","c","e","s","s","-","c","l","i","p","b","o","a","r","d">>],
       [flag |-> "--print-backgrounds", lit |-> <<"-","-","p","r","i","n","t","-","b","a","c","k","g","r","o","u","n","d","s">>],
       [flag |-> "--zoom-factor", lit |-> <<"-","-","z","o","o","m","-","f","a","c","t","o","r">>],
       [flag |-> "--app-name", lit |-> <<"-","-","a","p","p","-","n","a","m","e">>],
       [flag |-> "--app-version", lit |-> <<"-","-","a","p","p","-","v","e","r","s","i","o","n">>],
       [flag |-> "--body-base64", lit |-> <<"-","-","b","o","d","y","-","b","a","s","e","6","4">>],
       [flag |-> "--body-string", lit |-> <<"-","-","b","o","d","y","-","s","t","r","i","n","g">>],
       [flag |-> "--user-agent", lit |-> <<"-","-","u","s","e","r","-","a","g","e","n","t">>],
       [flag |-> "--out-format", lit |-> <<"-","-","o","u","t","-","f","o","r","m","a","t">>],
       [flag |-> "--header", lit |-> <<"-","-","h","e","a","d","e","r">>],
       [flag |-> "--inject-script", lit |-> <<"-","-","i","n","j","e","c","t","-","s","c","r","i","p","t">>],
       [flag |-> "--script-object", lit |-> <<"-","-","s","c","r","i","p","t","-","o","b","j","e","c","t">>],
       [flag |-> "--expect-alert", lit |-> <<"-","-","e","x","p","e","c","t","-","a","l","e","r","t">>] >>

\* The locals of main before the loop.
MainLocals ==
    [ argHelp |-> FALSE, argDelay |-> 0, argSilent |-> FALSE, argInsecure |-> FALSE,
      argMinWidth |-> DefaultMinWidth, argMinHeight |-> DefaultMinHeight,
      argMaxWait |-> DefaultMaxWait, argSmooth |-> FALSE,
      argUrl |-> <<>>,          \* <<>> is nullptr, <<v>> is a pointer to the text v
      argOut |-> <<>>,
      format |-> OtherFormat,
      mAlertString |-> <<>>,    \* CutyEnginePage::mAlertString
      mPrintAlerts |-> FALSE,   \* CutyEnginePage::mPrintAlerts
      brk |-> FALSE ]           \* the loop was left by break

\* The branch of the ladder an argument with an '=' takes: the first literal
\* its name is a prefix of, "" when none.
MatchedFlag(name) ==
    LET hits == { i \in 1..Len(FlagChain) : strncmpEq(FlagChain[i].lit, name) }
    IN IF hits = {} THEN ""
       ELSE FlagChain[CHOOSE i \in hits : \A j \in hits : i <= j].flag

\* --out as it would be without the test of format: the extension of every
\* --out decides.
InferFormat_Unguarded(format, path) ==
    LET hits == { i \in TableRows : endsWith(path, CutyExtMap[i].extension) }
    IN IF hits = {} THEN format
       ELSE CutyExtMap[CHOOSE i \in hits : \A j \in hits : j <= i].id

\* --out: the extension loop runs only while format is still OtherFormat and
\* has no break, so the last matching row wins.
InferFormat(format, path) ==
    IF format # OtherFormat THEN format
    ELSE LET hits == { i \in TableRows : endsWith(path, CutyExtMap[i].extension) }
         IN IF hits = {} THEN format
            ELSE CutyExtMap[CHOOSE i \in hits : \A j \in hits : j <= i].id

\* --out-format: the identifier loop; a row that matches overwrites format,
\* no match leaves it as it was.
OverrideFormat(format, value) ==
    LET hits == { i \in TableRows : strcmpEq(value, CutyExtMap[i].identifier) }
    IN IF hits = {} THEN format
       ELSE CutyExtMap[CHOOSE i \in hits : \A j \in hits : j <= i].id

\* strchr(value, ':') != nullptr
HasColon(value) == \E i \in 1..Len(value) : value[i] = ":"

\* One iteration of the loop body on argument a, from locals st.
ParseStep(st, a) ==
    IF ~a.eq /\ strcmpEq(SwitchSilent, a.name) THEN [st EXCEPT !.argSilent = TRUE]
    ELSE IF ~a.eq /\ strcmpEq(SwitchHelp, a.name) THEN [st EXCEPT !.argHelp = TRUE, !.brk = TRUE]
    ELSE IF ~a.eq /\ strcmpEq(SwitchInsecure, a.name) THEN [st EXCEPT !.argInsecure = TRUE]
    ELSE IF ~a.eq /\ strcmpEq(SwitchSmooth, a.name) THEN [st EXCEPT !.argSmooth = TRUE]
    ELSE IF ~a.eq /\ strcmpEq(SwitchDebugPrintAlerts, a.name) THEN [st EXCEPT !.mPrintAlerts = TRUE]
    ELSE IF ~a.eq THEN [st EXCEPT !.argHelp = TRUE, !.brk = TRUE]
    ELSE LET f == MatchedFlag(a.name) IN
         CASE f = "--url" -> [st EXCEPT !.argUrl = <<a.value>>]
           [] f = "--min-width" -> [st EXCEPT !.argMinWidth = strtol(a.value)]
           [] f = "--min-height" -> [st EXCEPT !.argMinHeight = strtol(a.value)]
           [] f = "--delay" -> [st EXCEPT !.argDelay = strtol(a.value)]
           [] f = "--max-wait" -> [st EXCEPT !.argMaxWait = strtol(a.value)]
           [] f = "--out" -> [st EXCEPT !.argOut = a.value,
                                        !.format = InferFormat(st.format, a.value)]
           [] f = "--out-format" ->
                LET fmt == OverrideFormat(st.format, a.value)
                IN IF fmt = OtherFormat
                   THEN [st EXCEPT !.format = fmt, !.argHelp = TRUE, !.brk = TRUE]
                   ELSE [st EXCEPT !.format = fmt]
           [] f = "--header" ->
                IF HasColon(a.value) THEN st
                ELSE [st EXCEPT !.argHelp = TRUE, !.brk = TRUE]
           [] f = "--expect-alert" -> [st EXCEPT !.mAlertString = a.value]
           [] f = "" -> [st EXCEPT !.argHelp = TRUE]
           [] OTHER -> st    \* engine settings, request body, user agent, script paths

RECURSIVE ParseLoop(_, _, _)
\* for (ax = i; ax < argc; ++ax) { ... } from locals st.
ParseLoop(st, args, i) ==
    IF i > Len(args) \/ st.brk THEN st
    ELSE ParseLoop(ParseStep(st, args[i]), args, i + 1)

\* if (!argUrl || argOut.isEmpty() || argHelp) { CaptHelp(argv[0]); return EXIT_FAILURE; }
ConfigError(st) == st.argUrl = <<>> \/ st.argOut = <<>> \/ st.argHelp

\* The members the CutyCapt constructor copies from main's locals.
mOutput == main.argOut
mDelay == main.argDelay
mFormat == main.format
mSilent == main.argSilent
mAlertString == main.mAlertString
mInsecure == main.argInsecure

(***************************************************************************)
(* CutyCapt: the capture and the slots.  An operator taking vs is a piece   *)
(* of a handler: vs is the value mViewSize has when the call is made.       *)
(***************************************************************************)
\* What saveSnapshot assigns.
capVars == <<captures, timeoutActive, mViewSize, snapSize, printsPending,
             textPending, pc, exitCode>>

\* QApplication::quit() / QApplication::exit(code): the event loop returns and
\* no further handler runs.
AppExit(code) == pc' = "exited" /\ exitCode' = code

\* The size fallback as it would be with the configured minimum as its last
\* resort.
NonZeroSize_ConfiguredMinimum(vs) ==
    LET s1 == IF isEmpty(vs) THEN pageSize ELSE vs
    IN IF isEmpty(s1) THEN <<main.argMinWidth, main.argMinHeight>> ELSE s1

\* The size fallback as it would be without the fixed default.
NonZeroSize_NoDefault(vs) == IF isEmpty(vs) THEN pageSize ELSE vs

\* "Make sure we have some non-zero size."
NonZeroSize(vs) ==
    LET s1 == IF isEmpty(vs) THEN pageSize ELSE vs
    IN IF isEmpty(s1) THEN <<FallbackWidth, FallbackHeight>> ELSE s1

\* saveSnapshot as it would be without mTimeoutTimer.stop().
saveSnapshot_KeepsTimeout(vs) ==
    /\ captures' = captures + 1
    /\ UNCHANGED timeoutActive
    /\ mViewSize' = NonZeroSize(vs)
    /\ snapSize' = NonZeroSize(vs)
    /\ CASE mFormat = "SvgFormat" ->
              /\ AppExit(0)
              /\ UNCHANGED <<printsPending, textPending>>
         [] mFormat \in {"PdfFormat", "PsFormat"} ->
              /\ printsPending' = printsPending + 1    \* printToPdf, asynchronous
              /\ UNCHANGED <<textPending, pc, exitCode>>
         [] mFormat \in {"InnerTextFormat", "HtmlFormat"} ->
              /\ textPending' = textPending + 1        \* toPlainText / toHtml
              /\ UNCHANGED <<printsPending, pc, exitCode>>
         [] OTHER ->                                   \* default: grab / render, save
              /\ AppExit(0)
              /\ UNCHANGED <<printsPending, textPending>>

\* CutyCapt::saveSnapshot from mViewSize = vs.
saveSnapshot(vs) ==
    /\ captures' = captures + 1
    /\ timeoutActive' = FALSE                     \* mTimeoutTimer.stop()
    /\ mViewSize' = NonZeroSize(vs)
    /\ snapSize' = NonZeroSize(vs)
    /\ CASE mFormat = "SvgFormat" ->
              /\ AppExit(0)
              /\ UNCHANGED <<printsPending, textPending>>
         [] mFormat \in {"PdfFormat", "PsFormat"} ->
              /\ printsPending' = printsPending + 1    \* printToPdf, asynchronous
              /\ UNCHANGED <<textPending, pc, exitCode>>
         [] mFormat \in {"InnerTextFormat", "HtmlFormat"} ->
              /\ textPending' = textPending + 1        \* toPlainText / toHtml
              /\ UNCHANGED <<printsPending, pc, exitCode>>
         [] OTHER ->                                   \* default: grab / render, save
              /\ AppExit(0)
              /\ UNCHANGED <<printsPending, textPending>>

\* A handler that returns without capturing, leaving mViewSize at vs.
NoCapture(vs) ==
    /\ mViewSize' = vs
    /\ UNCHANGED <<captures, timeoutActive, snapSize, printsPending, textPending,
                   pc, exitCode>>

TryDelayedRender(vs) ==
    IF mAlertString # <<>>
    THEN NoCapture(vs) /\ UNCHANGED delayTimers
    ELSE IF mDelay > 0
    THEN NoCapture(vs) /\ delayTimers' = delayTimers + 1
    ELSE saveSnapshot(vs) /\ UNCHANGED delayTimers

\* updateViewportToContentThenMaybeCapture up to the runJavaScript call.
updateViewportToContentThenMaybeCapture ==
    IF mAlertString # <<>>
    THEN UNCHANGED <<probesPending, probesIssued>>
    ELSE /\ probesPending' = probesPending + 1
         /\ probesIssued' = probesIssued + 1

\* DocumentComplete as it would be if it also took the surface size as the
\* content size.
DocumentComplete_TakesSurfaceSize(ok) ==
    /\ UNCHANGED certDecision
    /\ UNCHANGED <<lastProbe, lastAlertExact, dialogAnswer, openFailed>>
    /\ loadFailed' = (loadFailed \/ ~ok)
    /\ UNCHANGED printFailed
    /\ pc = "run"
    /\ loads < MaxLoads
    /\ loads' = loads + 1
    /\ ev' = "DocumentComplete"
    /\ mViewSize' = pageSize
    /\ IF ~mSilent /\ ~ok
       THEN /\ AppExit(ExitFailure)
            /\ UNCHANGED <<mSawDocumentComplete, probesPending, probesIssued>>
       ELSE /\ mSawDocumentComplete' = TRUE
            /\ updateViewportToContentThenMaybeCapture
            /\ UNCHANGED <<pc, exitCode>>
    /\ UNCHANGED <<cliVars, mSawGeometryChange, pageSize, timeoutActive,
                   delayTimers, alertTimers, printsPending, textPending, alerts,
                   captures, snapSize, alertMatched, timeoutFired>>

\* Slot of QWebEngineView::loadFinished.
DocumentComplete(ok) ==
    /\ UNCHANGED certDecision
    /\ UNCHANGED <<lastProbe, lastAlertExact, dialogAnswer, openFailed>>
    /\ loadFailed' = (loadFailed \/ ~ok)
    /\ UNCHANGED printFailed
    /\ pc = "run"
    /\ loads < MaxLoads
    /\ loads' = loads + 1
    /\ ev' = "DocumentComplete"
    /\ IF ~mSilent /\ ~ok
       THEN /\ AppExit(ExitFailure)
            /\ UNCHANGED <<mSawDocumentComplete, probesPending, probesIssued>>
       ELSE /\ mSawDocumentComplete' = TRUE
            /\ updateViewportToContentThenMaybeCapture
            /\ UNCHANGED <<pc, exitCode>>
    /\ UNCHANGED <<cliVars, mSawGeometryChange, mViewSize, pageSize, timeoutActive,
                   delayTimers, alertTimers, printsPending, textPending, alerts,
                   captures, snapSize, alertMatched, timeoutFired>>

\* The callback of runJavaScript, with the width and height it reads from the result.
ProbeResult(w, h) ==
    /\ UNCHANGED certDecision
    /\ lastProbe' = <<w, h>>
    /\ UNCHANGED <<lastAlertExact, dialogAnswer, openFailed>>
    /\ UNCHANGED <<loadFailed, printFailed>>
    /\ pc = "run"
    /\ probesPending > 0
    /\ probesPending' = probesPending - 1
    /\ ev' = "ProbeResult"
    /\ LET vs == IF w > 0 /\ h > 0 THEN <<w, h>> ELSE pageSize
           geo == IF w > 0 /\ h > 0 THEN TRUE ELSE ~isEmpty(pageSize)
       IN /\ pageSize' = IF w > 0 /\ h > 0 THEN <<w, h>> ELSE pageSize
          /\ mSawGeometryChange' = geo
          /\ IF mSawDocumentComplete /\ geo
             THEN TryDelayedRender(vs)
             ELSE NoCapture(vs) /\ UNCHANGED delayTimers
    /\ UNCHANGED <<cliVars, mSawDocumentComplete, alertTimers, loads, alerts,
                   probesIssued, alertMatched, timeoutFired>>

\* Timeout as it would be if it went through the readiness path instead of
\* calling saveSnapshot itself.
Timeout_ViaTryDelayedRender ==
    /\ UNCHANGED certDecision
    /\ UNCHANGED <<lastProbe, lastAlertExact, dialogAnswer, openFailed>>
    /\ UNCHANGED <<loadFailed, printFailed>>
    /\ pc = "run"
    /\ timeoutActive
    /\ timeoutFired' = TRUE
    /\ ev' = "Timeout"
    /\ TryDelayedRender(mViewSize)
    /\ UNCHANGED <<cliVars, mSawDocumentComplete, mSawGeometryChange, pageSize,
                   alertTimers, probesPending, loads, alerts, probesIssued,
                   alertMatched>>

\* Slot of mTimeoutTimer (single shot).
Timeout ==
    /\ UNCHANGED certDecision
    /\ UNCHANGED <<lastProbe, lastAlertExact, dialogAnswer, openFailed>>
    /\ UNCHANGED <<loadFailed, printFailed>>
    /\ pc = "run"
    /\ timeoutActive
    /\ timeoutFired' = TRUE
    /\ ev' = "Timeout"
    /\ saveSnapshot(mViewSize)
    /\ UNCHANGED <<cliVars, mSawDocumentComplete, mSawGeometryChange, pageSize,
                   delayTimers, alertTimers, probesPending, loads, alerts,
                   probesIssued, alertMatched>>

\* Delayed as it would be if it captured only once the load has finished.
Delayed_ChecksReadiness ==
    IF mSawDocumentComplete THEN saveSnapshot(mViewSize) ELSE NoCapture(mViewSize)

\* Slot Delayed.
Delayed == saveSnapshot(mViewSize)

\* A single-shot timer armed by TryDelayedRender elapses.
DelayElapsed ==
    /\ UNCHANGED certDecision
    /\ UNCHANGED <<lastProbe, lastAlertExact, dialogAnswer, openFailed>>
    /\ UNCHANGED <<loadFailed, printFailed>>
    /\ pc = "run"
    /\ delayTimers > 0
    /\ delayTimers' = delayTimers - 1
    /\ ev' = "DelayElapsed"
    /\ Delayed
    /\ UNCHANGED <<cliVars, mSawDocumentComplete, mSawGeometryChange, pageSize,
                   alertTimers, probesPending, loads, alerts, probesIssued,
                   alertMatched, timeoutFired>>

\* A 10 ms single-shot timer armed by javaScriptAlert elapses.
AlertGraceElapsed ==
    /\ UNCHANGED certDecision
    /\ UNCHANGED <<lastProbe, lastAlertExact, dialogAnswer, openFailed>>
    /\ UNCHANGED <<loadFailed, printFailed>>
    /\ pc = "run"
    /\ alertTimers > 0
    /\ alertTimers' = alertTimers - 1
    /\ ev' = "AlertGraceElapsed"
    /\ Delayed
    /\ UNCHANGED <<cliVars, mSawDocumentComplete, mSawGeometryChange, pageSize,
                   delayTimers, probesPending, loads, alerts, probesIssued,
                   alertMatched, timeoutFired>>

\* Slot of QWebEnginePage::contentsSizeChanged; szf is a QSizeF in tenths.
onContentsSizeChanged(szf) ==
    /\ UNCHANGED certDecision
    /\ UNCHANGED <<lastProbe, lastAlertExact, dialogAnswer, openFailed>>
    /\ UNCHANGED <<loadFailed, printFailed>>
    /\ pc = "run"
    /\ ev' = "onContentsSizeChanged"
    /\ IF szf[1] > 0 /\ szf[2] > 0
       THEN mViewSize' = toSize(szf) /\ mSawGeometryChange' = TRUE
       ELSE UNCHANGED <<mViewSize, mSawGeometryChange>>
    /\ UNCHANGED <<cliVars, pc, exitCode, mSawDocumentComplete, pageSize,
                   timeoutActive, delayTimers, alertTimers, probesPending,
                   printsPending, textPending, loads, alerts, captures, snapSize,
                   probesIssued, alertMatched, timeoutFired>>

\* javaScriptAlert's condition as it would be without the comparison of the
\* message: any alert counts once an expected string is configured.
AlertMatches_AnyMessage(msg) == mAlertString # <<>>

\* javaScriptAlert's condition as it would be with a substring match: the
\* expected string occurs somewhere in the message.
AlertMatches_Substring(msg) ==
    /\ mAlertString # <<>>
    /\ \E k \in 0..(Len(msg) - Len(mAlertString)) :
          \A i \in 1..Len(mAlertString) : msg[k + i] = mAlertString[i]

\* The condition under which javaScriptAlert arms the capture timer (mCutyCapt
\* is set by the CutyCapt constructor, before the event loop runs).
AlertMatches(msg) == mAlertString # <<>> /\ msg = mAlertString

\* CutyEnginePage::javaScriptAlert
javaScriptAlert(msg) ==
    /\ UNCHANGED certDecision
    /\ lastAlertExact' = (msg = mAlertString)
    /\ UNCHANGED <<lastProbe, dialogAnswer, openFailed>>
    /\ UNCHANGED <<loadFailed, printFailed>>
    /\ pc = "run"
    /\ alerts < MaxAlerts
    /\ alerts' = alerts + 1
    /\ ev' = "javaScriptAlert"
    /\ alertMatched' = (alertMatched \/ msg = mAlertString)
    /\ alertTimers' = IF AlertMatches(msg) THEN alertTimers + 1 ELSE alertTimers
    /\ UNCHANGED <<cliVars, pc, exitCode, mSawDocumentComplete, mSawGeometryChange,
                   mViewSize, pageSize, timeoutActive, delayTimers, probesPending,
                   printsPending, textPending, loads, captures, snapSize,
                   probesIssued, timeoutFired>>

\* No certificate error has been raised yet.
NoCertificateError == [raised |-> FALSE, overridable |-> FALSE, accepted |-> FALSE]

\* handleCertificateError as it would be if insecure mode accepted every
\* error.
handleCertificateError_AcceptsAll(overridable) ==
    /\ pc = "run"
    /\ ev' = "handleCertificateError"
    /\ certDecision' = [raised |-> TRUE, overridable |-> overridable,
                        accepted |-> mInsecure]
    /\ UNCHANGED <<cliVars, pc, exitCode, mSawDocumentComplete, mSawGeometryChange,
                   mViewSize, pageSize, timeoutActive, delayTimers, alertTimers,
                   probesPending, printsPending, textPending, loads, alerts,
                   captures, snapSize, probesIssued, alertMatched, timeoutFired,
                   loadFailed, printFailed, lastProbe, lastAlertExact,
                   dialogAnswer, openFailed>>

\* CutyEnginePage::handleCertificateError on an error that is overridable or
\* not: without mInsecure it returns (the engine rejects by default), with it
\* acceptCertificate() is called on an overridable error only.
handleCertificateError(overridable) ==
    /\ pc = "run"
    /\ ev' = "handleCertificateError"
    /\ certDecision' = [raised |-> TRUE, overridable |-> overridable,
                        accepted |-> IF ~mInsecure THEN FALSE ELSE overridable]
    /\ UNCHANGED <<cliVars, pc, exitCode, mSawDocumentComplete, mSawGeometryChange,
                   mViewSize, pageSize, timeoutActive, delayTimers, alertTimers,
                   probesPending, printsPending, textPending, loads, alerts,
                   captures, snapSize, probesIssued, alertMatched, timeoutFired,
                   loadFailed, printFailed, lastProbe, lastAlertExact,
                   dialogAnswer, openFailed>>

\* No confirm or prompt dialog has been answered yet.
NoAnswer == [accepted |-> FALSE, result |-> <<>>]

\* CutyEnginePage::javaScriptConfirm: returns true, whatever the message; it
\* has no text to return.
javaScriptConfirm ==
    /\ UNCHANGED certDecision
    /\ pc = "run"
    /\ ev' = "javaScriptConfirm"
    /\ dialogAnswer' = [accepted |-> TRUE, result |-> <<>>]
    /\ UNCHANGED <<cliVars, pc, exitCode, mSawDocumentComplete, mSawGeometryChange,
                   mViewSize, pageSize, timeoutActive, delayTimers, alertTimers,
                   probesPending, printsPending, textPending, loads, alerts,
                   captures, snapSize, probesIssued, alertMatched, timeoutFired,
                   loadFailed, printFailed, lastProbe, lastAlertExact, openFailed>>

\* CutyEnginePage::javaScriptPrompt: *result = QString() and returns true,
\* whatever the message and the default value def.
javaScriptPrompt(def) ==
    /\ UNCHANGED certDecision
    /\ pc = "run"
    /\ ev' = "javaScriptPrompt"
    /\ dialogAnswer' = [accepted |-> TRUE, result |-> <<>>]
    /\ UNCHANGED <<cliVars, pc, exitCode, mSawDocumentComplete, mSawGeometryChange,
                   mViewSize, pageSize, timeoutActive, delayTimers, alertTimers,
                   probesPending, printsPending, textPending, loads, alerts,
                   captures, snapSize, probesIssued, alertMatched, timeoutFired,
                   loadFailed, printFailed, lastProbe, lastAlertExact, openFailed>>

\* pdfPrintFinish as it would be if a failed print returned without ending
\* the event loop.
pdfPrintFinish_ReturnsOnFailure(success) ==
    /\ UNCHANGED certDecision
    /\ UNCHANGED <<lastProbe, lastAlertExact, dialogAnswer, openFailed>>
    /\ printFailed' = (printFailed \/ ~success)
    /\ UNCHANGED loadFailed
    /\ pc = "run"
    /\ printsPending > 0
    /\ printsPending' = printsPending - 1
    /\ ev' = "pdfPrintFinish"
    /\ IF ~success THEN UNCHANGED <<pc, exitCode>> ELSE AppExit(0)
    /\ UNCHANGED <<cliVars, mSawDocumentComplete, mSawGeometryChange, mViewSize,
                   pageSize, timeoutActive, delayTimers, alertTimers, probesPending,
                   textPending, loads, alerts, captures, snapSize, probesIssued,
                   alertMatched, timeoutFired>>

\* Slot of QWebEnginePage::pdfPrintingFinished.
pdfPrintFinish(success) ==
    /\ UNCHANGED certDecision
    /\ UNCHANGED <<lastProbe, lastAlertExact, dialogAnswer, openFailed>>
    /\ printFailed' = (printFailed \/ ~success)
    /\ UNCHANGED loadFailed
    /\ pc = "run"
    /\ printsPending > 0
    /\ printsPending' = printsPending - 1
    /\ ev' = "pdfPrintFinish"
    /\ IF ~success /\ ~mSilent THEN AppExit(ExitFailure) ELSE AppExit(0)
    /\ UNCHANGED <<cliVars, mSawDocumentComplete, mSawGeometryChange, mViewSize,
                   pageSize, timeoutActive, delayTimers, alertTimers, probesPending,
                   textPending, loads, alerts, captures, snapSize, probesIssued,
                   alertMatched, timeoutFired>>

\* The callback as it would be if a file that cannot be opened ended the
\* process with a failure status.
TextExtracted_FailOnOpenError(opened) ==
    /\ UNCHANGED certDecision
    /\ openFailed' = ~opened
    /\ UNCHANGED <<lastProbe, lastAlertExact, dialogAnswer>>
    /\ UNCHANGED <<loadFailed, printFailed>>
    /\ pc = "run"
    /\ textPending > 0
    /\ textPending' = textPending - 1
    /\ ev' = "TextExtracted"
    /\ IF opened THEN AppExit(0) ELSE AppExit(ExitFailure)
    /\ UNCHANGED <<cliVars, mSawDocumentComplete, mSawGeometryChange, mViewSize,
                   pageSize, timeoutActive, delayTimers, alertTimers, probesPending,
                   printsPending, loads, alerts, captures, snapSize, probesIssued,
                   alertMatched, timeoutFired>>

\* The callback of toPlainText / toHtml: the file is written when it can be
\* opened, and the application quits either way.
TextExtracted(opened) ==
    /\ UNCHANGED certDecision
    /\ openFailed' = ~opened
    /\ UNCHANGED <<lastProbe, lastAlertExact, dialogAnswer>>
    /\ UNCHANGED <<loadFailed, printFailed>>
    /\ pc = "run"
    /\ textPending > 0
    /\ textPending' = textPending - 1
    /\ ev' = "TextExtracted"
    /\ AppExit(0)
    /\ UNCHANGED <<cliVars, mSawDocumentComplete, mSawGeometryChange, mViewSize,
                   pageSize, timeoutActive, delayTimers, alertTimers, probesPending,
                   printsPending, loads, alerts, captures, snapSize, probesIssued,
                   alertMatched, timeoutFired>>

(***************************************************************************)
(* main(): validation and start-up.                                        *)
(***************************************************************************)
\* The members and counters before the event loop has delivered anything.
Constructed ==
    /\ mSawDocumentComplete = FALSE
    /\ mSawGeometryChange = FALSE
    /\ mViewSize = NullSize
    /\ delayTimers = 0 /\ alertTimers = 0
    /\ probesPending = 0 /\ printsPending = 0 /\ textPending = 0
    /\ loads = 0 /\ alerts = 0 /\ captures = 0 /\ probesIssued = 0
    /\ snapSize = NullSize
    /\ alertMatched = FALSE /\ timeoutFired = FALSE
    /\ loadFailed = FALSE /\ printFailed = FALSE
    /\ lastProbe = NullSize
    /\ lastAlertExact = FALSE
    /\ dialogAnswer = NoAnswer
    /\ openFailed = FALSE
    /\ certDecision = NoCertificateError

\* main as it would be if it configured the timer without starting it.
StartTimeout_NotStarted(st) == FALSE

\* The timer main starts and the size it gives the page, from locals st.
StartTimeout(st) == UnsignedPositive(st.argMaxWait)
StartPageSize(st) == WidgetSize(<<st.argMinWidth, st.argMinHeight>>)

\* One iteration of the argument loop.
ArgLoop ==
    /\ pc = "parse"
    /\ ax <= Len(argv)
    /\ ~main.brk
    /\ main' = ParseStep(main, argv[ax])
    /\ ax' = ax + 1
    /\ ev' = "ArgLoop"
    /\ UNCHANGED <<argv, pc, exitCode, runVars>>

LoopDone == pc = "parse" /\ (ax > Len(argv) \/ main.brk)

\* CaptHelp(argv[0]); return EXIT_FAILURE;
HelpExit ==
    /\ LoopDone
    /\ ConfigError(main)
    /\ AppExit(ExitFailure)
    /\ ev' = "HelpExit"
    /\ UNCHANGED <<cliVars, runVars>>

\* Construction of CutyCapt, the timeout timer, the page size, page.load(req)
\* and entry into app.exec().
Startup ==
    /\ UNCHANGED certDecision
    /\ UNCHANGED <<lastProbe, lastAlertExact, dialogAnswer, openFailed>>
    /\ UNCHANGED <<loadFailed, printFailed>>
    /\ LoopDone
    /\ ~ConfigError(main)
    /\ pc' = "run"
    /\ timeoutActive' = StartTimeout(main)
    /\ pageSize' = StartPageSize(main)
    /\ ev' = "Startup"
    /\ UNCHANGED <<cliVars, exitCode, mSawDocumentComplete, mSawGeometryChange,
                   mViewSize, delayTimers, alertTimers, probesPending,
                   printsPending, textPending, loads, alerts, captures, snapSize,
                   probesIssued, alertMatched, timeoutFired>>

(***************************************************************************)
(* Inputs.                                                                 *)
(***************************************************************************)
ArgUrl == [name |-> <<"-","-","u","r","l">>, eq |-> TRUE, value |-> <<"u">>]
ArgOutPng == [name |-> <<"-","-","o","u","t">>, eq |-> TRUE, value |-> <<"a",".","p","n","g">>]
ArgOutSvg == [name |-> <<"-","-","o","u","t">>, eq |-> TRUE, value |-> <<"b",".","s","v","g">>]
ArgOutPdf == [name |-> <<"-","-","o","u","t">>, eq |-> TRUE, value |-> <<"c",".","p","d","f">>]
ArgOutTxt == [name |-> <<"-","-","o","u","t">>, eq |-> TRUE, value |-> <<"d",".","t","x","t">>]
ArgOutHtml == [name |-> <<"-","-","o","u","t">>, eq |-> TRUE, value |-> <<"e",".","h","t","m","l">>]
ArgOutJpg == [name |-> <<"-","-","o","u","t">>, eq |-> TRUE, value |-> <<"s","h","o","t",".","j","p","g">>]
ArgFormatPdf == [name |-> <<"-","-","o","u","t","-","f","o","r","m","a","t">>, eq |-> TRUE, value |-> <<"p","d","f">>]
ArgFormatSvg == [name |-> <<"-","-","o","u","t","-","f","o","r","m","a","t">>, eq |-> TRUE, value |-> <<"s","v","g">>]
ArgFormatBogus == [name |-> <<"-","-","o","u","t","-","f","o","r","m","a","t">>, eq |-> TRUE, value |-> <<"b","o","g","u","s">>]
ArgOuPrefix == [name |-> <<"-","-","o","u">>, eq |-> TRUE, value |-> <<"a",".","p","n","g">>]
ArgEmptyName == [name |-> <<>>, eq |-> TRUE, value |-> <<"u">>]
ArgInsecure == [name |-> <<"-","-","i","n","s","e","c","u","r","e">>, eq |-> FALSE, value |-> <<>>]
ArgSilent == [name |-> <<"-","-","s","i","l","e","n","t">>, eq |-> FALSE, value |-> <<>>]
ArgDelay == [name |-> <<"-","-","d","e","l","a","y">>, eq |-> TRUE, value |-> <<"5","0","0">>]
ArgNoMaxWait == [name |-> <<"-","-","m","a","x","-","w","a","i","t">>, eq |-> TRUE, value |-> <<"0">>]
ArgExpectAlert == [name |-> <<"-","-","e","x","p","e","c","t","-","a","l","e","r","t">>, eq |-> TRUE, value |-> <<"R","E","A","D","Y">>]
ArgNoMinWidth == [name |-> <<"-","-","m","i","n","-","w","i","d","t","h">>, eq |-> TRUE, value |-> <<"0">>]

\* Messages a page may pass to alert().
AlertMessages == { <<"R","E","A","D","Y">>, <<"r","e","a","d","y">>, <<"R","E","A","D","Y","!">> }

\* The default values a page passes to prompt().
PromptDefaults == { <<>>, <<"x">> }

\* Results the size probe may deliver (width, height), (0, 0) when the script
\* yields nothing usable.
ProbeResults == { <<0, 0>>, <<1024, 0>>, <<1024, 2000>> }

\* Sizes contentsSizeChanged may report, in tenths.
ContentSizes == { <<0, 0>>, <<4, 4>>, <<10240, 0>>, <<10240, 30000>> }

\* Command lines of the event-loop specification: a URL, an output path and
\* any subset of the options, in this order.  The timeout timer is always
\* started: a run without it (--max-wait=0, taken by the argument-loop
\* specification) makes the steps of a run in which Timeout never fires.
RunOutputs == { ArgOutPng, ArgOutSvg, ArgOutPdf, ArgOutTxt, ArgOutHtml }
RunOptions == << ArgSilent, ArgDelay, ArgExpectAlert, ArgNoMinWidth >>

RECURSIVE Chosen(_, _)
Chosen(mask, i) ==
    IF i > Len(RunOptions) THEN <<>>
    ELSE (IF mask[i] THEN <<RunOptions[i]>> ELSE <<>>) \o Chosen(mask, i + 1)

RunArgv == { <<ArgUrl, out>> \o Chosen(mask, 1) :
               out \in RunOutputs, mask \in [1..Len(RunOptions) -> BOOLEAN] }

\* Command lines of the argument-loop specification.
CliArgs == { ArgUrl, ArgOutPng, ArgOutSvg, ArgOutJpg, ArgFormatPdf, ArgFormatSvg,
             ArgFormatBogus, ArgOuPrefix, ArgEmptyName, ArgNoMaxWait }

RECURSIVE SeqsUpTo(_, _)
SeqsUpTo(S, n) ==
    IF n = 0 THEN { <<>> }
    ELSE LET shorter == SeqsUpTo(S, n - 1)
         IN shorter \cup { Append(q, a) : q \in shorter, a \in S }

CliArgv == SeqsUpTo(CliArgs, MaxArgs)

(***************************************************************************)
(* Specifications.                                                         *)
(***************************************************************************)
\* The event loop: the state app.exec() is entered in, for each command line
\* of RunArgv.
Init ==
    /\ argv \in RunArgv
    /\ main = ParseLoop(MainLocals, argv, 1)
    /\ ax = Len(argv) + 1
    /\ ~ConfigError(main)
    /\ pc = "run"
    /\ exitCode = -1
    /\ Constructed
    /\ timeoutActive = StartTimeout(main)
    /\ pageSize = StartPageSize(main)
    /\ ev = "Startup"

Next ==
    \/ \E ok \in BOOLEAN : DocumentComplete(ok)
    \/ \E r \in ProbeResults : ProbeResult(r[1], r[2])
    \/ \E szf \in ContentSizes : onContentsSizeChanged(szf)
    \/ \E msg \in AlertMessages : javaScriptAlert(msg)
    \/ DelayElapsed
    \/ AlertGraceElapsed
    \/ Timeout
    \/ \E success \in BOOLEAN : pdfPrintFinish(success)
    \/ \E opened \in BOOLEAN : TextExtracted(opened)
    \/ javaScriptConfirm
    \/ \E def \in PromptDefaults : javaScriptPrompt(def)

Spec == Init /\ [][Next]_vars

\* Command lines of the specifications with fairness: every output format
\* with no option, with each of --silent, --delay, --expect-alert and
\* --max-wait=0 alone, and with --silent together with --expect-alert (a
\* failed load that does not end an alert-gated run).
FairOptions == { <<>>, <<ArgSilent>>, <<ArgDelay>>, <<ArgExpectAlert>>, <<ArgNoMaxWait>>,
                 <<ArgSilent, ArgExpectAlert>> }

FairArgv == { <<ArgUrl, out>> \o opts : out \in RunOutputs, opts \in FairOptions }

InitFair ==
    /\ argv \in FairArgv
    /\ main = ParseLoop(MainLocals, argv, 1)
    /\ ax = Len(argv) + 1
    /\ ~ConfigError(main)
    /\ pc = "run"
    /\ exitCode = -1
    /\ Constructed
    /\ timeoutActive = StartTimeout(main)
    /\ pageSize = StartPageSize(main)
    /\ ev = "Startup"

\* The event loop delivers the timeout of a started single-shot timer: a
\* QTimer that stays active fires.
SpecTimer == InitFair /\ [][Next]_vars /\ WF_vars(Timeout)

\* The engine delivers the completion of every print and every text
\* extraction it was asked for.
SpecEngine ==
    /\ InitFair /\ [][Next]_vars
    /\ WF_vars(\E success \in BOOLEAN : pdfPrintFinish(success))
    /\ WF_vars(\E opened \in BOOLEAN : TextExtracted(opened))

\* Command lines of the specification with certificate errors: with and
\* without --insecure, --delay and --expect-alert.
CertArgv == { <<ArgUrl, out>> \o a \o b \o c :
                out \in { ArgOutPng, ArgOutPdf, ArgOutHtml },
                a \in { <<>>, <<ArgInsecure>> },
                b \in { <<>>, <<ArgDelay>> },
                c \in { <<>>, <<ArgExpectAlert>> } }

InitCert ==
    /\ argv \in CertArgv
    /\ main = ParseLoop(MainLocals, argv, 1)
    /\ ax = Len(argv) + 1
    /\ ~ConfigError(main)
    /\ pc = "run"
    /\ exitCode = -1
    /\ Constructed
    /\ timeoutActive = StartTimeout(main)
    /\ pageSize = StartPageSize(main)
    /\ ev = "Startup"

\* The event loop with the certificateError signal of the page connected:
\* the engine may raise a certificate error at any time while it loads.
NextCert ==
    \/ Next
    \/ \E overridable \in BOOLEAN : handleCertificateError(overridable)

SpecCert == InitCert /\ [][NextCert]_vars

\* main() from its first statement to app.exec() or return EXIT_FAILURE.
InitCli ==
    /\ argv \in CliArgv
    /\ ax = 1
    /\ main = MainLocals
    /\ pc = "parse"
    /\ exitCode = -1
    /\ Constructed
    /\ timeoutActive = FALSE
    /\ pageSize = NullSize
    /\ ev = "main"

NextCli == ArgLoop \/ HelpExit \/ Startup

SpecCli == InitCli /\ [][NextCli]_vars

(***************************************************************************)
(* Properties.                                                             *)
(***************************************************************************)
\* C1: at-most-once capture: in every run, whatever the output format and the
\* interleaving of load-finished, probe-result, alert, delay and timeout
\* events, saveSnapshot is invoked at most once.
C1_AtMostOneCapture == captures <= 1

\* C2: alert precedence: with an expected-alert string configured, as long as
\* no alert with exactly that message was observed and the global timeout has
\* not fired, no capture has been invoked.
C2_AlertPrecedence ==
    (mAlertString # <<>> /\ ~alertMatched /\ ~timeoutFired) => captures = 0

\* C2 witness: alert-gated run with delay 0 in which two loads finished
\* successfully, the content size became known and an alert with another
\* message was raised, and still nothing was captured.
C2_Witness ==
    /\ mAlertString # <<>> /\ ~alertMatched /\ ~timeoutFired
    /\ mDelay = 0
    /\ loads >= 2 /\ ~loadFailed /\ mSawDocumentComplete /\ mSawGeometryChange
    /\ alerts >= 1
    /\ captures = 0

\* C3: load failure is fatal in every configuration: once a load-finished
\* event reported success = false the process has terminated with a non-zero
\* status, without loadComplete being set, a probe issued or a capture made
\* by that event or after it.
C3_LoadFailureFatal ==
    loadFailed => /\ pc = "exited" /\ exitCode # 0
                  /\ ev = "DocumentComplete"

\* C4: print failure is fatal in every configuration: once the print-completion
\* callback reported success = false the process has terminated with a
\* non-zero status; after a print-completion callback the status is 0 only
\* when it reported success.
C4_PrintFailureFatal ==
    /\ printFailed => (pc = "exited" /\ exitCode # 0)
    /\ (ev = "pdfPrintFinish" /\ pc = "exited" /\ exitCode = 0) => ~printFailed

\* C5: readiness always leads to capture: with no expected-alert string, once
\* the result of the geometry probe was delivered after a successful load,
\* geometryKnown is set and the delay sub-protocol was entered: the capture was
\* invoked (delay 0) or a delay timer is armed, also when the probe returned no
\* usable size and the rendering surface is empty.
C5_ProbeResultEntersDelayProtocol ==
    (ev = "ProbeResult" /\ mAlertString = <<>> /\ mSawDocumentComplete /\ ~loadFailed)
        => (mSawGeometryChange /\ (captures > 0 \/ delayTimers > 0))

\* C6: timeout forces capture from any state: the step in which the global
\* timeout fires while no capture has been made invokes the capture, whatever
\* the readiness flags, the pending timers and the alert gating are.
C6_TimeoutForcesCapture ==
    [][(~timeoutFired /\ timeoutFired' /\ captures = 0) => captures' = 1]_vars

\* C6 witness: the timeout fired and captured while the load had not completed,
\* alert gating was active and no matching alert had been seen.
C6_Witness ==
    /\ ev = "Timeout" /\ timeoutFired /\ captures = 1
    /\ ~mSawDocumentComplete /\ ~mSawGeometryChange
    /\ mAlertString # <<>> /\ ~alertMatched

\* loadComplete and geometryKnown.
Ready == mSawDocumentComplete /\ mSawGeometryChange

\* C7: delay ordering: with delay > 0 and no expected-alert string, once
\* readiness is reached (and no probe result is outstanding any more) a
\* one-shot delay timer is armed until the capture is made; a capture is invoked
\* only by the expiry of a delay timer or by the global timeout; and the expiry
\* of a delay timer invokes the capture.
C7_DelayOrdering ==
    [][(mDelay > 0 /\ mAlertString = <<>>) =>
          /\ (Ready' /\ probesPending' = 0 /\ captures' = 0 /\ pc' = "run")
                => delayTimers' > 0
          /\ captures' > captures => ev' \in {"DelayElapsed", "Timeout"}
          /\ (ev' = "DelayElapsed" /\ delayTimers' < delayTimers)
                => captures' = captures + 1
      ]_vars

\* The loop has processed argument a as an explicit format override whose
\* identifier is in no row of the table.
UnknownOverride(a) ==
    /\ a.eq
    /\ MatchedFlag(a.name) = "--out-format"
    /\ \A i \in TableRows : a.value # CutyExtMap[i].identifier

\* C8: the unresolved sentinel never reaches the writer: when the argument loop
\* has ended with format = OtherFormat, main returns with a non-zero status
\* instead of constructing CutyCapt and loading the page.
C8_SentinelIsConfigError ==
    (pc # "parse" /\ main.format = OtherFormat) => (pc = "exited" /\ exitCode # 0)

\* C9: a command line holding an explicit format override whose identifier is
\* not in the table ends in a config error (non-zero exit, no page load),
\* wherever the override stands.
C9_UnknownOverrideIsConfigError ==
    (pc # "parse" /\ \E i \in 1..Len(argv) : UnknownOverride(argv[i]))
        => (pc = "exited" /\ exitCode # 0)

\* The table entry whose extension the path ends with, the sentinel when none.
ExtensionFormat(path) ==
    IF \E i \in TableRows : endsWith(path, CutyExtMap[i].extension)
    THEN CutyExtMap[CHOOSE i \in TableRows : endsWith(path, CutyExtMap[i].extension)].id
    ELSE OtherFormat

\* C10: format inference: on a command line without a format override, the
\* format CutyCapt is constructed with is the table entry whose extension the
\* output path it writes to ends with, and the sentinel when that path ends
\* with none, for any sequence of --out arguments.
C10_FormatInference ==
    (pc = "run" /\ \A i \in 1..Len(argv) : MatchedFlag(argv[i].name) # "--out-format")
        => mFormat = ExtensionFormat(mOutput)

\* The positions of argv the loop takes as --out-format and as --out.
OverrideArgs == { i \in 1..Len(argv) : argv[i].eq /\ MatchedFlag(argv[i].name) = "--out-format" }
OutArgs == { i \in 1..Len(argv) : argv[i].eq /\ MatchedFlag(argv[i].name) = "--out" }

\* The format whose identifier is the text, the sentinel when there is none.
IdentifierFormat(value) ==
    IF \E i \in TableRows : CutyExtMap[i].identifier = value
    THEN CutyExtMap[CHOOSE i \in TableRows : CutyExtMap[i].identifier = value].id
    ELSE OtherFormat

\* C11: a valid explicit override wins over the extension of --out in either
\* order: a command line with one --out-format of a valid identifier f and one
\* --out resolves to f, whichever of the two comes first.
C11_OverridePrecedence ==
    (pc # "parse" /\ Cardinality(OverrideArgs) = 1 /\ Cardinality(OutArgs) = 1)
        => \A i \in OverrideArgs :
              IdentifierFormat(argv[i].value) # OtherFormat
                 => main.format = IdentifierFormat(argv[i].value)

\* C11 witness: the run started from a command line whose valid override comes
\* before an --out of another format's extension, with the override's format.
C11_Witness ==
    /\ pc = "run"
    /\ \E i \in OverrideArgs : \E j \in OutArgs :
          /\ i < j
          /\ OverrideArgs = {i} /\ OutArgs = {j}
          /\ ExtensionFormat(argv[j].value) \notin {OtherFormat, IdentifierFormat(argv[i].value)}
          /\ mFormat = IdentifierFormat(argv[i].value)

\* The flag names of the help text: the literals of the ladder for arguments
\* with a value, the switches for arguments without.
DocumentedName(a) ==
    IF a.eq THEN \E i \in 1..Len(FlagChain) : FlagChain[i].lit = a.name
    ELSE a.name \in { SwitchSilent, SwitchHelp, SwitchInsecure, SwitchSmooth,
                      SwitchDebugPrintAlerts }

\* An argument of argv whose flag name is exactly the literal.
Given(lit) == \E i \in 1..Len(argv) : argv[i].eq /\ argv[i].name = lit

\* C16: a command line without --url, without --out, or with an argument
\* whose flag name is not exactly a documented name ends in the help text and
\* a non-zero exit status, before the page load is started.
C16_CommandLineValidation ==
    ( /\ pc # "parse"
      /\ \/ ~Given(<<"-","-","u","r","l">>)
         \/ ~Given(<<"-","-","o","u","t">>)
         \/ \E i \in 1..Len(argv) : ~DocumentedName(argv[i]) )
        => (pc = "exited" /\ exitCode # 0)

\* C12: geometry fallback chain as claimed: the ViewSize used at a capture is
\* the size the geometry probe returned when that had positive dimensions,
\* otherwise the surface's current size when non-empty, otherwise the
\* configured minimum size (--min-width x --min-height).
C12_FallbackChain ==
    [][captures' > captures =>
          snapSize' = IF ~isEmpty(lastProbe') THEN lastProbe'
                      ELSE IF ~isEmpty(pageSize') THEN pageSize'
                      ELSE <<main.argMinWidth, main.argMinHeight>>
      ]_vars

\* The ViewSize a capture starts from: inside a probe callback the size the
\* callback has just adopted (the probe's when positive, the surface's when
\* not), in any other handler the recorded ViewSize.
CaptureStartSize ==
    IF ev' = "ProbeResult"
    THEN IF ~isEmpty(lastProbe') THEN lastProbe' ELSE pageSize
    ELSE mViewSize

\* C12 (amended): the ViewSize used at a capture is the ViewSize the capture
\* starts from when that is non-empty, otherwise the surface's current size
\* when non-empty, otherwise the fixed 800 x 600, whatever the configured
\* minimum is.
C12_FallbackChainFixedDefault ==
    [][captures' > captures =>
          snapSize' = IF ~isEmpty(CaptureStartSize) THEN CaptureStartSize
                      ELSE IF ~isEmpty(pageSize') THEN pageSize'
                      ELSE <<800, 600>>
      ]_vars

\* C12 witness: the probe returned nothing, the surface is empty (the
\* configured minimum width is 0), and the timeout captured at 800 x 600.
C12_Witness ==
    /\ captures = 1 /\ ev = "Timeout"
    /\ lastProbe = <<0, 0>>
    /\ isEmpty(pageSize) /\ main.argMinWidth = 0
    /\ snapSize = <<800, 600>>

\* C19: ViewSize frame condition as claimed: ViewSize changes only in a probe
\* result callback and in a capture.
C19_ViewSizeFrame ==
    [][mViewSize' # mViewSize => (ev' = "ProbeResult" \/ captures' > captures)]_vars

\* C19 (amended): ViewSize changes only in a probe result callback, in a
\* contents-size-changed notification and in a capture; load-finished, alert,
\* confirm, prompt, print-finished and text-extracted leave it unchanged.
C19_ViewSizeFrameWithContentsSize ==
    [][mViewSize' # mViewSize =>
          (ev' \in {"ProbeResult", "onContentsSizeChanged"} \/ captures' > captures)]_vars

\* C19 witness: a contents-size-changed notification has replaced the size
\* the probe had recorded, before any capture.
C19_Witness ==
    /\ ev = "onContentsSizeChanged" /\ captures = 0
    /\ ~isEmpty(lastProbe) /\ ~isEmpty(mViewSize) /\ mViewSize # lastProbe

\* C20: non-empty capture size: at every format dispatch of saveSnapshot the
\* ViewSize has strictly positive width and height.
C20_CaptureSizeNonEmpty ==
    captures > 0 => (snapSize[1] > 0 /\ snapSize[2] > 0)

\* C20 witness: a capture forced by the timeout before any load finished or
\* geometry was reported, on an empty surface.
C20_Witness ==
    /\ captures = 1 /\ ev = "Timeout"
    /\ loads = 0 /\ probesIssued = 0 /\ lastProbe = NullSize
    /\ ~mSawGeometryChange /\ isEmpty(pageSize)
    /\ snapSize[1] > 0 /\ snapSize[2] > 0

\* C13: alert matching is exact: an alert arms the capture timer if and only
\* if an expected string is configured and the message is identical to it; an
\* alert, a confirm or a prompt never invokes a capture, arms a delay timer or
\* ends the process in its own step; a confirm or a prompt arms nothing and
\* is answered at once, the confirm with true and the prompt with the empty
\* string.
C13_AlertMatchingExact ==
    [][ /\ (alertTimers' > alertTimers)
             <=> (ev' = "javaScriptAlert" /\ alerts' > alerts
                    /\ mAlertString # <<>> /\ lastAlertExact')
        /\ ev' \in {"javaScriptAlert", "javaScriptConfirm", "javaScriptPrompt"}
             => (captures' = captures /\ delayTimers' = delayTimers /\ pc' = pc)
        /\ ev' \in {"javaScriptConfirm", "javaScriptPrompt"}
             => (alertTimers' = alertTimers /\ dialogAnswer'.accepted)
        /\ ev' = "javaScriptPrompt" => dialogAnswer'.result = <<>>
      ]_vars

\* C13 witness: with an expected string configured, a confirm was answered
\* and two alerts were raised, the first with the expected message and the
\* last with another one: one capture timer is armed and nothing is captured.
C13_Witness ==
    /\ ev = "javaScriptAlert" /\ alerts = 2
    /\ mAlertString # <<>> /\ alertMatched /\ ~lastAlertExact
    /\ dialogAnswer.accepted
    /\ alertTimers = 1 /\ captures = 0 /\ pc = "run"

\* C14: the process ends without a capture only through a fatal load
\* failure: once the event loop has returned, a status of 0 was preceded by
\* exactly one capture, and a run without any capture was ended by the
\* load-failure path of DocumentComplete with a non-zero status.
C14_TerminationAfterCapture ==
    pc = "exited" =>
        /\ exitCode = 0 => captures = 1
        /\ captures = 0 => (loadFailed /\ exitCode # 0 /\ ev = "DocumentComplete")

\* C15: degraded write: the step in which the text or HTML extraction
\* completes and the output file cannot be opened ends the process with status
\* 0, and invokes no capture and arms no timer or probe.
C15_DegradedWrite ==
    [][(~openFailed /\ openFailed') =>
          /\ pc' = "exited" /\ exitCode' = 0
          /\ captures' = captures
          /\ delayTimers' = delayTimers /\ alertTimers' = alertTimers
          /\ probesPending' = probesPending /\ textPending' = textPending - 1
      ]_vars

\* C15 witness: an HTML run whose single capture ended with a file that could
\* not be opened, and status 0.
C15_Witness ==
    /\ openFailed /\ ev = "TextExtracted"
    /\ mFormat = "HtmlFormat" /\ captures = 1
    /\ pc = "exited" /\ exitCode = 0

\* C17: timeout cancellation: every capture leaves the global timeout timer
\* stopped, and once a capture has begun the Timeout slot never runs, also
\* while a print or a text extraction is still pending.
C17_TimeoutCancelled ==
    [][ /\ captures' > captures => ~timeoutActive'
        /\ captures > 0 => ~(ev' = "Timeout" /\ captures' > captures)
        /\ captures > 0 => timeoutFired' = timeoutFired
      ]_vars

\* C17 witness: a timeout was configured, the delay timer captured to PDF and
\* the print is still pending: the timer is stopped and has not fired.
C17_Witness ==
    /\ pc = "run" /\ captures = 1 /\ ev = "DelayElapsed"
    /\ printsPending = 1
    /\ UnsignedPositive(main.argMaxWait)
    /\ ~timeoutActive /\ ~timeoutFired

\* C18: alert bypass: javaScriptAlert never captures in its own step; a
\* matching alert arms the grace timer; and the expiry of that timer invokes
\* the capture whatever the readiness flags are, without arming a delay timer.
C18_AlertBypass ==
    [][ /\ ev' = "javaScriptAlert" => captures' = captures
        /\ (ev' = "javaScriptAlert" /\ alerts' > alerts
              /\ mAlertString # <<>> /\ lastAlertExact')
             => alertTimers' = alertTimers + 1
        /\ (ev' = "AlertGraceElapsed" /\ alertTimers' < alertTimers)
             => (captures' = captures + 1 /\ delayTimers' = delayTimers)
      ]_vars

\* C18 witness: the grace timer of a matching alert captured while the load
\* had not finished, no geometry was known and a delay was configured.
C18_Witness ==
    /\ ev = "AlertGraceElapsed" /\ captures = 1
    /\ ~mSawDocumentComplete /\ ~mSawGeometryChange
    /\ mDelay > 0 /\ delayTimers = 0 /\ ~timeoutFired

\* C21: probe discipline: a load-finished(true) event issues exactly one
\* geometry probe when no expected-alert string is configured and none when
\* one is; no other event issues a probe: not a load-finished(false), a probe
\* result, a contents-size-changed notification, a delay or the timeout.
C21_ProbeDiscipline ==
    [][ /\ (ev' = "DocumentComplete" /\ loads' > loads /\ ~loadFailed')
             => probesIssued' = probesIssued + (IF mAlertString = <<>> THEN 1 ELSE 0)
        /\ probesIssued' # probesIssued
             => /\ ev' = "DocumentComplete" /\ loads' > loads
                /\ ~(~loadFailed /\ loadFailed')
      ]_vars

\* C24: the readiness flags are monotonic: no step sets mSawDocumentComplete
\* or mSawGeometryChange back to false once it is true.
C24_ReadinessMonotonic ==
    [][ /\ mSawDocumentComplete => mSawDocumentComplete'
        /\ mSawGeometryChange => mSawGeometryChange'
      ]_vars

\* C22: bounded wait: when the timeout timer was started (max-wait > 0),
\* every run eventually invokes a capture or ends through a fatal load
\* failure, whatever else happens or fails to happen.
C22_BoundedWait ==
    UnsignedPositive(main.argMaxWait)
        => <>(captures > 0 \/ (pc = "exited" /\ loadFailed /\ exitCode # 0))

\* C22 witness: the timeout captured in a run in which the load finished but
\* the probe it issued was never answered.
C22_Witness ==
    /\ ev = "Timeout" /\ timeoutFired /\ captures = 1
    /\ mSawDocumentComplete /\ probesPending > 0 /\ lastProbe = NullSize
    /\ delayTimers = 0 /\ alertTimers = 0

\* C23: a capture ends the process: a capture to a vector or raster format
\* ends it in the same step, and after any capture the process eventually
\* ends, given that the engine delivers the completion callbacks.
C23_CaptureEndsProcess ==
    /\ [][(captures' > captures
             /\ mFormat \notin {"PdfFormat", "PsFormat", "InnerTextFormat", "HtmlFormat"})
            => pc' = "exited"]_vars
    /\ (captures > 0) ~> (pc = "exited")

\* C23 witness: a PDF run that ended with the print-finished callback after
\* its capture, in a run whose timer was never started.
C23_Witness ==
    /\ pc = "exited" /\ ev = "pdfPrintFinish" /\ captures = 1
    /\ mFormat = "PdfFormat" /\ ~UnsignedPositive(main.argMaxWait)

\* C25: certificate errors are accepted only in insecure mode: whenever a
\* certificate error was accepted, the insecure flag was given on the command
\* line and the error was overridable.
C25_CertificateAcceptance ==
    certDecision.accepted =>
        ( /\ \E i \in 1..Len(argv) : ~argv[i].eq /\ argv[i].name = SwitchInsecure
          /\ certDecision.overridable )

\* C25 witness: in a run started with --insecure an overridable certificate
\* error was accepted after a load had finished.
C25_Witness ==
    /\ ev = "handleCertificateError"
    /\ certDecision.raised /\ certDecision.accepted /\ certDecision.overridable
    /\ mInsecure /\ loads > 0

====
